---- MODULE Spec2Model ----
(***************************************************************************)
(* Model of src/hmm/hmm.py: class HMM (constructor, Baum-Welch training,   *)
(* Viterbi decoding).                                                      *)
(*                                                                         *)
(* Numbers.  The program computes with IEEE doubles.  The model computes   *)
(* with exact non-negative rationals extended by the two non-finite values *)
(* a division by zero produces: a number is a record [n, d] in lowest      *)
(* terms, d > 0 for a finite value, Inf = 1/0 and NaN = 0/0.  Rounding and *)
(* underflow are not modelled.                                             *)
(*                                                                         *)
(* Arrays are functions on 0..len-1, as in the source.                     *)
(*                                                                         *)
(* Not modelled: the attributes observations and observation_labels (only  *)
(* print_parameters reads them), print_parameters, pprint_matrix and the   *)
(* plot branch of viterbi.                                                 *)
(***************************************************************************)
EXTENDS Integers, Sequences, FiniteSets, TLC

(***************************************************************************)
(* Bounds of the model.                                                    *)
(***************************************************************************)
MaxT == 3        \* longest observation sequence
MaxObs == 2      \* observation labels are drawn from 0..MaxObs

\* The values of n_iterations.  One EM iteration turns the parameters into
\* rationals whose products, in a further pass over them, exceed the integers
\* of the model checker; for the same reason a run is one object and one call
\* of train or viterbi on it.
IterationCounts == {0, 1}

(***************************************************************************)
(* float64 arithmetic on non-negative values.                              *)
(***************************************************************************)
RECURSIVE GCD(_, _)
GCD(a, b) == IF b = 0 THEN a ELSE GCD(b, a % b)

Num(n, d) ==
    IF d = 0 THEN [n |-> IF n = 0 THEN 0 ELSE 1, d |-> 0]
    ELSE IF n = 0 THEN [n |-> 0, d |-> 1]
    ELSE LET g == GCD(n, d) IN [n |-> n \div g, d |-> d \div g]

Zero == Num(0, 1)
One == Num(1, 1)
Inf == Num(1, 0)
NaN == Num(0, 0)

IsNaN(x) == x.n = 0 /\ x.d = 0
IsFinite(x) == x.d > 0

\* x * y ; inf * 0 = nan
Mul(x, y) ==
    IF x.d = 0 \/ y.d = 0 THEN Num(x.n * y.n, 0)
    ELSE LET g1 == GCD(x.n, y.d)
             g2 == GCD(y.n, x.d)
             a == IF g1 = 0 THEN 0 ELSE (x.n \div g1) * (y.n \div g2)
             b == IF g1 = 0 THEN 1 ELSE (x.d \div g2) * (y.d \div g1)
         IN  Num(a, b)

\* x / y ; x / 0 = inf, 0 / 0 = nan, x / inf = 0, inf / inf = nan
Div(x, y) == Mul(x, [n |-> y.d, d |-> y.n])

\* x + y ; inf + inf = inf
Add(x, y) ==
    IF IsNaN(x) \/ IsNaN(y) THEN NaN
    ELSE IF x.d = 0 \/ y.d = 0 THEN Inf
    ELSE LET g == GCD(x.d, y.d)
         IN  Num(x.n * (y.d \div g) + y.n * (x.d \div g), (x.d \div g) * y.d)

\* x < y for values that are not nan
Less(x, y) ==
    IF y.d = 0 THEN x.d # 0
    ELSE IF x.d = 0 THEN FALSE
    ELSE IF y.n = 0 THEN FALSE
    ELSE IF x.n = 0 THEN TRUE
    ELSE LET gn == GCD(x.n, y.n)
             gd == GCD(x.d, y.d)
         IN  (x.n \div gn) * (y.d \div gd) < (y.n \div gn) * (x.d \div gd)

\* np.sum of the first k entries of v
RECURSIVE SumTo(_, _)
SumTo(v, k) == IF k = 0 THEN Zero ELSE Add(SumTo(v, k - 1), v[k - 1])

\* np.max of v[0..k-1]: nan if any entry is nan
RECURSIVE MaxTo(_, _)
MaxTo(v, k) ==
    IF k = 1 THEN v[0]
    ELSE LET m == MaxTo(v, k - 1)
         IN  IF IsNaN(m) \/ IsNaN(v[k - 1]) THEN NaN
             ELSE IF Less(m, v[k - 1]) THEN v[k - 1] ELSE m

\* np.argmax of v[0..k-1]: the first nan if there is one, else the first maximum
ArgMax(v, k) ==
    IF \E i \in 0..(k - 1) : IsNaN(v[i])
    THEN CHOOSE i \in 0..(k - 1) : IsNaN(v[i]) /\ \A j \in 0..(i - 1) : ~IsNaN(v[j])
    ELSE CHOOSE i \in 0..(k - 1) :
             /\ \A j \in 0..(k - 1) : ~Less(v[i], v[j])
             /\ \A j \in 0..(i - 1) : Less(v[j], v[i])

\* np.allclose(x, 1.0): |x - 1| <= atol + rtol * 1 with numpy's defaults
\* rtol = 1e-5, atol = 1e-8
AllClose1(x) ==
    /\ IsFinite(x)
    /\ LET diff == IF x.n >= x.d THEN x.n - x.d ELSE x.d - x.n
       IN  diff = 0 \/ (x.d \div diff >= 99900 /\ diff * 100000000 <= 1001 * x.d)

(***************************************************************************)
(* Shapes.                                                                 *)
(***************************************************************************)
Rows(m) == Cardinality(DOMAIN m)
Cols(m) == Cardinality(DOMAIN m[0])

\* np.sum(m, axis=0)[j]
ColSum(m, j) == SumTo([i \in DOMAIN m |-> m[i][j]], Rows(m))

(***************************************************************************)
(* Inputs.  Matrices are built column by column from small pools of        *)
(* columns; every pool holds columns that sum to 1 and one that does not.  *)
(***************************************************************************)
Q(a, b) == Num(a, b)

\* columns of a transition matrix with N = 2 (rows: state 0, state 1, STOP)
TransitionColumns2 ==
    { <<Q(1, 1), Q(0, 1), Q(0, 1)>>,
      <<Q(1, 4), Q(3, 4), Q(0, 1)>>,
      <<Q(1, 2), Q(0, 1), Q(1, 2)>>,
      <<Q(1, 2), Q(0, 1), Q(0, 1)>> }

\* columns of a transition matrix with N = 1 (rows: state 0, STOP)
TransitionColumns1 ==
    { <<Q(1, 1), Q(0, 1)>>, <<Q(1, 2), Q(1, 2)>>, <<Q(1, 2), Q(0, 1)>> }

\* columns of an emission matrix with K = 2 and with K = 1
EmissionColumns2 ==
    { <<Q(1, 1), Q(0, 1)>>, <<Q(1, 4), Q(3, 4)>>, <<Q(1, 2), Q(0, 1)>> }
EmissionColumns1 == { <<Q(1, 1)>> }

\* the r x c matrix whose column j is cols[j + 1]
FromColumns(r, c, cols) == [i \in 0..(r - 1) |-> [j \in 0..(c - 1) |-> cols[j + 1][i + 1]]]

Tuples(S, k) == [1..k -> S]

TransitionPool ==
    { FromColumns(3, 3, cs) : cs \in Tuples(TransitionColumns2, 3) }
    \cup { FromColumns(2, 2, cs) : cs \in Tuples(TransitionColumns1, 2) }

EmissionPool ==
    UNION { { FromColumns(2, m, cs) : cs \in Tuples(EmissionColumns2, m) } : m \in 1..2 }
    \cup { FromColumns(2, 3, cs) : cs \in Tuples({ <<Q(1, 1), Q(0, 1)>>, <<Q(1, 2), Q(0, 1)>> }, 3) }
    \cup UNION { { FromColumns(1, m, cs) : cs \in Tuples(EmissionColumns1, m) } : m \in 1..2 }

\* observation sequences: 1D arrays of integer labels
ObservationPool == UNION { [0..(T - 1) -> 0..MaxObs] : T \in 1..MaxT }

(***************************************************************************)
(* State: the HMM object, the caller's position ("new", then "ready" or    *)
(* "failed" after the constructor, "done" after the call) and the last     *)
(* call with its outcome.                                                  *)
(* The scratch tables do not exist before the first train; they are <<>>   *)
(* until then.                                                             *)
(***************************************************************************)
VARIABLES pc, self, call

vars == <<pc, self, call>>

NoCall == [op |-> "none", n_iterations |-> 0, observation_indices |-> <<>>,
           raised |-> "none", states |-> <<>>]

Init ==
    /\ pc = "new"
    /\ self = [p_transition |-> <<>>, p_emission |-> <<>>,
               n_hidden_states |-> 0, n_observation_classes |-> 0,
               n_observations |-> 0, observation_indices |-> <<>>,
               forward |-> <<>>, backward |-> <<>>, gamma |-> <<>>, delta |-> <<>>]
    /\ call = NoCall

(***************************************************************************)
(* HMM.__init__                                                            *)
(***************************************************************************)
\* mutant: the comparison misses the last column (the START column of A)
ColumnsSumToOneButLast(m, k) ==
    IF Cols(m) # k /\ Cols(m) # 1 /\ k # 1 THEN "ValueError"
    ELSE IF \A j \in 0..(Cols(m) - 2) : AllClose1(ColSum(m, j)) THEN "none"
    ELSE "AssertionError"

\* np.allclose(np.sum(m, axis=0), np.ones(k)): the exception it raises, or "none"
ColumnsSumToOne(m, k) ==
    IF Cols(m) # k /\ Cols(m) # 1 /\ k # 1 THEN "ValueError"
    ELSE IF \A j \in 0..(Cols(m) - 1) : AllClose1(ColSum(m, j)) THEN "none"
    ELSE "AssertionError"

InitRaises(p_transition, p_emission) ==
    LET N == Rows(p_transition) - 1
        e == ColumnsSumToOne(p_emission, N)
    IN  IF e # "none" THEN e ELSE ColumnsSumToOne(p_transition, N + 1)

Construct(p_transition, p_emission) ==
    /\ pc = "new"
    /\ self' = [self EXCEPT !.p_transition = p_transition,
                            !.p_emission = p_emission,
                            !.n_hidden_states = Rows(p_transition) - 1,
                            !.n_observation_classes = Rows(p_emission)]
    /\ call' = [NoCall EXCEPT !.op = "init",
                              !.raised = InitRaises(p_transition, p_emission)]
    /\ pc' = IF call'.raised = "none" THEN "ready" ELSE "failed"

(***************************************************************************)
(* HMM.renumber_observations and the check on the number of labels         *)
(***************************************************************************)
Len0(v) == Cardinality(DOMAIN v)

MinOf(v) == CHOOSE m \in { v[t] : t \in DOMAIN v } : \A t \in DOMAIN v : m <= v[t]
MaxOf(v) == CHOOSE m \in { v[t] : t \in DOMAIN v } : \A t \in DOMAIN v : m >= v[t]

renumber_observations(observations) ==
    [t \in DOMAIN observations |-> observations[t] - MinOf(observations)]

\* len(np.unique(observations)), len(set(observation_indices))
NUnique(v) == Cardinality({ v[t] : t \in DOMAIN v })

(***************************************************************************)
(* Numpy indexing and broadcasting of p_emission.                          *)
(***************************************************************************)
\* p_emission[y] used as a vector against a vector of n_hidden_states
\* entries: a row of one entry is broadcast
EmissionRow(h, y, i) ==
    IF Cols(h.p_emission) = 1 THEN h.p_emission[y][0] ELSE h.p_emission[y][i]

\* the first t whose index is not a row of p_emission, or n_observations
FirstBadIndex(idx, K) ==
    LET bad == { t \in DOMAIN idx : idx[t] >= K }
    IN  IF bad = {} THEN Len0(idx) ELSE MinOf([t \in bad |-> t])

\* an array of n_hidden_states entries cannot take p_emission's wider row
RowTooWide(h) == h.n_hidden_states = 1 /\ Cols(h.p_emission) > 1

(***************************************************************************)
(* Expectation step.  Each operator takes the object h with the field      *)
(* "raised" added and returns it as the method leaves it.                  *)
(***************************************************************************)
\* mutant: the product with the transpose of the real-state block
ForwardRowTransposed(h, fw, t) ==
    LET N == h.n_hidden_states
        y == h.observation_indices[t]
        A == h.p_transition
    IN  IF t = 0
        THEN [i \in 0..(N - 1) |-> Mul(A[i][N], EmissionRow(h, y, i))]
        ELSE [i \in 0..(N - 1) |->
                 Mul(EmissionRow(h, y, i),
                     SumTo([j \in 0..(N - 1) |-> Mul(A[j][i], fw[t - 1][j])], N))]

ForwardRow(h, fw, t) ==
    LET N == h.n_hidden_states
        y == h.observation_indices[t]
        A == h.p_transition
    IN  IF t = 0
        THEN [i \in 0..(N - 1) |-> Mul(A[i][N], EmissionRow(h, y, i))]
        ELSE [i \in 0..(N - 1) |->
                 Mul(EmissionRow(h, y, i),
                     SumTo([j \in 0..(N - 1) |-> Mul(A[i][j], fw[t - 1][j])], N))]

RECURSIVE ForwardFill(_, _, _, _)
ForwardFill(h, fw, t, stop) ==
    IF t >= stop THEN fw
    ELSE ForwardFill(h, [fw EXCEPT ![t] = ForwardRow(h, fw, t)], t + 1, stop)

calc_forward_probabilities(h) ==
    LET bad == FirstBadIndex(h.observation_indices, h.n_observation_classes)
    IN  IF bad = 0 THEN [h EXCEPT !.raised = "IndexError"]
        ELSE IF RowTooWide(h) THEN [h EXCEPT !.raised = "ValueError"]
        ELSE [h EXCEPT !.forward = ForwardFill(h, h.forward, 0, bad),
                       !.raised = IF bad < h.n_observations THEN "IndexError" ELSE "none"]

\* mutant: the block is used without np.transpose
BackwardRowUntransposed(h, bw, t) ==
    LET N == h.n_hidden_states
        y == h.observation_indices[t + 1]
        A == h.p_transition
    IN  [i \in 0..(N - 1) |->
            SumTo([j \in 0..(N - 1) |->
                      Mul(Mul(bw[t + 1][j], EmissionRow(h, y, j)), A[i][j])], N)]

BackwardRow(h, bw, t) ==
    LET N == h.n_hidden_states
        y == h.observation_indices[t + 1]
        A == h.p_transition
    IN  [i \in 0..(N - 1) |->
            SumTo([j \in 0..(N - 1) |->
                      Mul(Mul(bw[t + 1][j], EmissionRow(h, y, j)), A[j][i])], N)]

RECURSIVE BackwardFill(_, _, _)
BackwardFill(h, bw, t) ==
    IF t < 0 THEN bw
    ELSE BackwardFill(h, [bw EXCEPT ![t] = BackwardRow(h, bw, t)], t - 1)

calc_backward_probabilities(h) ==
    LET T == h.n_observations
        N == h.n_hidden_states
        last == [h.backward EXCEPT ![T - 1] = [i \in 0..(N - 1) |-> One]]
    IN  [h EXCEPT !.backward = BackwardFill(h, last, T - 2)]

\* the entry as line 184 computes it, before the division
GammaRaw(h, t, i, j) ==
    Mul(Mul(Mul(h.forward[t][i], h.p_transition[j][i]), h.backward[t + 1][j]),
        h.p_emission[h.observation_indices[t + 1]][j])

\* np.dot(self.forward[t], self.backward[t])
GammaDenom(h, t) ==
    SumTo([k \in 0..(h.n_hidden_states - 1) |-> Mul(h.forward[t][k], h.backward[t][k])],
          h.n_hidden_states)

calc_gamma(h) ==
    LET T == h.n_observations
        N == h.n_hidden_states
    IN  IF T < 2 THEN h
        ELSE IF Cols(h.p_emission) < N
        THEN \* p_emission[.., j] with j past its only column
             [h EXCEPT !.gamma[0][0][0] = GammaRaw(h, 0, 0, 0), !.raised = "IndexError"]
        ELSE [h EXCEPT !.gamma =
                 [t \in 0..(T - 1) |->
                     IF t = T - 1 THEN h.gamma[t]
                     ELSE [i \in 0..(N - 1) |-> [j \in 0..(N - 1) |->
                              Div(GammaRaw(h, t, i, j), GammaDenom(h, t))]]]]

calc_delta(h) ==
    LET T == h.n_observations
        N == h.n_hidden_states
        total == SumTo(h.forward[T - 1], N)
    IN  [h EXCEPT !.delta =
            [t \in 0..(T - 1) |->
                IF t = T - 1 THEN [i \in 0..(N - 1) |-> Div(h.forward[t][i], total)]
                ELSE [i \in 0..(N - 1) |->
                         SumTo(h.gamma[t][i], N)]]]

(***************************************************************************)
(* Maximization step.                                                      *)
(***************************************************************************)
update_p_transition(h) ==
    LET T == h.n_observations
        N == h.n_hidden_states
        GammaSum(i, j) == SumTo([t \in 0..(T - 1) |-> h.gamma[t][i][j]], T - 1)
        DeltaSum(i) == SumTo([t \in 0..(T - 1) |-> h.delta[t][i]], T - 1)
    IN  [h EXCEPT !.p_transition =
            [r \in 0..N |-> [c \in 0..N |->
                IF r = N THEN h.p_transition[r][c]
                ELSE IF c = N THEN h.delta[0][r]
                ELSE Div(GammaSum(r, c), DeltaSum(r))]]]

update_p_emission(h) ==
    LET T == h.n_observations
        N == h.n_hidden_states
        K == h.n_observation_classes
        dirac(t, v) == IF h.observation_indices[t] = v THEN One ELSE Zero
        Temp(i, v) == SumTo([t \in 0..(T - 1) |-> Mul(h.delta[t][i], dirac(t, v))], T)
        DeltaSum(i) == SumTo([t \in 0..(T - 1) |-> h.delta[t][i]], T)
    IN  [h EXCEPT !.p_emission =
            [v \in 0..(K - 1) |-> [i \in 0..(N - 1) |-> Div(Temp(i, v), DeltaSum(i))]]]

\* a raised exception ends the call: the steps after it do not run
expectation(h) ==
    LET h1 == calc_forward_probabilities(h)
        h2 == IF h1.raised = "none" THEN calc_backward_probabilities(h1) ELSE h1
        h3 == IF h2.raised = "none" THEN calc_gamma(h2) ELSE h2
    IN  IF h3.raised = "none" THEN calc_delta(h3) ELSE h3

maximization(h) == update_p_emission(update_p_transition(h))

\* the body of the loop of train
EMStep(h) ==
    LET e == expectation(h) IN IF e.raised = "none" THEN maximization(e) ELSE e

\* mutant: the loop body runs once even when n_iterations is 0
IterateAtLeastOnce(h, n) == EMStep(h)

RECURSIVE Iterate(_, _)
Iterate(h, n) ==
    IF n = 0 \/ h.raised # "none" THEN h
    ELSE Iterate(EMStep(h), n - 1)

(***************************************************************************)
(* HMM.train                                                               *)
(***************************************************************************)
Zeros2(T, N) == [t \in 0..(T - 1) |-> [i \in 0..(N - 1) |-> Zero]]
Zeros3(T, N) == [t \in 0..(T - 1) |-> [i \in 0..(N - 1) |-> [j \in 0..(N - 1) |-> Zero]]]

TrainResult(h0, observations, n_iterations) ==
    LET T == Len0(observations)
        N == h0.n_hidden_states
        h1 == [h0 EXCEPT !.n_observations = T,
                         !.observation_indices = renumber_observations(observations)]
    IN  IF NUnique(observations) > h0.n_observation_classes
        THEN [h1 EXCEPT !.raised = "AssertionError"]
        ELSE Iterate([h1 EXCEPT !.forward = Zeros2(T, N), !.backward = Zeros2(T, N),
                                !.gamma = Zeros3(T, N), !.delta = Zeros2(T, N)],
                     n_iterations)

WithRaised(h) == [f \in DOMAIN h \cup {"raised"} |-> IF f = "raised" THEN "none" ELSE h[f]]
WithoutRaised(h) == [f \in DOMAIN h \ {"raised"} |-> h[f]]

Train(observations, n_iterations) ==
    /\ pc = "ready"
    /\ LET h == TrainResult(WithRaised(self), observations, n_iterations)
       IN  /\ self' = WithoutRaised(h)
           /\ call' = [NoCall EXCEPT !.op = "train", !.n_iterations = n_iterations,
                                     !.raised = h.raised]
    /\ pc' = "done"

(***************************************************************************)
(* HMM.viterbi                                                             *)
(***************************************************************************)
\* mutant: the candidates use p_transition[j, i]
CandidatesTransposed(h, idx, t1, t) ==
    LET N == h.n_hidden_states
    IN  [i \in 0..(N - 1) |-> [j \in 0..(N - 1) |->
            Mul(Mul(t1[t - 1][j], h.p_transition[j][i]), EmissionRow(h, idx[t], i))]]

\* line 307: s[i][j] = t1[j, t-1] * p_transition[i, j] * p_emission[y_t][i]
Candidates(h, idx, t1, t) ==
    LET N == h.n_hidden_states
    IN  [i \in 0..(N - 1) |-> [j \in 0..(N - 1) |->
            Mul(Mul(t1[t - 1][j], h.p_transition[i][j]), EmissionRow(h, idx[t], i))]]

\* the tables t1 and t2, indexed [t][i], filled up to column stop - 1
RECURSIVE ViterbiFill(_, _, _, _, _)
ViterbiFill(h, idx, tabs, t, stop) ==
    IF t >= stop THEN tabs
    ELSE LET N == h.n_hidden_states
             s == Candidates(h, idx, tabs.t1, t)
         IN  ViterbiFill(h, idx,
                 [t1 |-> [tabs.t1 EXCEPT ![t] = [i \in 0..(N - 1) |-> MaxTo(s[i], N)]],
                  t2 |-> [tabs.t2 EXCEPT ![t] = [i \in 0..(N - 1) |-> ArgMax(s[i], N)]]],
                 t + 1, stop)

\* lines 311-313: states[t], walking the back pointers from the last state
RECURSIVE Backtrack(_, _, _)
Backtrack(tabs, states, t) ==
    IF t = 0 THEN states
    ELSE Backtrack(tabs, [states EXCEPT ![t - 1] = tabs.t2[t][states[t]]], t - 1)

ViterbiResult(h, observations) ==
    LET T == Len0(observations)
        N == h.n_hidden_states
        idx == renumber_observations(observations)
        bad == FirstBadIndex(idx, h.n_observation_classes)
        zeros == [t \in 0..(T - 1) |-> 0]
        none == [observation_indices |-> idx, raised |-> "none", states |-> <<>>]
    IN  IF NUnique(idx) > h.n_observation_classes
        THEN [none EXCEPT !.raised = "AssertionError"]
        ELSE IF bad = 0 THEN [none EXCEPT !.raised = "IndexError"]
        ELSE IF RowTooWide(h) THEN [none EXCEPT !.raised = "ValueError"]
        ELSE IF bad < T THEN [none EXCEPT !.raised = "IndexError"]
        ELSE LET first == [i \in 0..(N - 1) |->
                              Mul(h.p_transition[i][N], EmissionRow(h, idx[0], i))]
                 start == [t1 |-> [Zeros2(T, N) EXCEPT ![0] = first],
                           t2 |-> [t \in 0..(T - 1) |-> [i \in 0..(N - 1) |-> 0]]]
                 tabs == ViterbiFill(h, idx, start, 1, T)
                 last == [zeros EXCEPT ![T - 1] = ArgMax(tabs.t1[T - 1], N)]
             IN  [none EXCEPT !.states = Backtrack(tabs, last, T - 1)]

Viterbi(observations) ==
    /\ pc = "ready"
    /\ LET r == ViterbiResult(self, observations)
       IN  call' = [NoCall EXCEPT !.op = "viterbi",
                                  !.observation_indices = r.observation_indices,
                                  !.raised = r.raised, !.states = r.states]
    /\ pc' = "done"
    /\ UNCHANGED self

Next ==
    \/ \E A \in TransitionPool, B \in EmissionPool : Construct(A, B)
    \/ \E o \in ObservationPool, n \in IterationCounts : Train(o, n)
    \/ \E o \in ObservationPool : Viterbi(o)

Spec == Init /\ [][Next]_vars

(***************************************************************************)
(* Vocabulary of the properties.                                           *)
(***************************************************************************)
N_ == self.n_hidden_states
K_ == self.n_observation_classes
T_ == self.n_observations

\* B has one column per hidden state (the shape the constructor documents)
WellShaped == Cols(self.p_emission) = N_

\* |x - 1| <= 1e-7
Near1(x) ==
    /\ IsFinite(x)
    /\ LET diff == IF x.n >= x.d THEN x.n - x.d ELSE x.d - x.n
       IN  diff = 0 \/ x.d \div diff >= 10000000

\* column j of m summed over its first r rows
PartColSum(m, j, r) == SumTo([i \in DOMAIN m |-> m[i][j]], r)

EmissionStochastic(B) ==
    \A j \in 0..(Cols(B) - 1) : Near1(PartColSum(B, j, Rows(B)))

\* the N real-state columns and the START column, over the real-state rows
TransitionStochasticRealRows(A) ==
    \A j \in 0..(Rows(A) - 1) : Near1(PartColSum(A, j, Rows(A) - 1))

\* the same columns over all rows, the STOP row included
TransitionStochasticAllRows(A) ==
    \A j \in 0..(Rows(A) - 1) : Near1(PartColSum(A, j, Rows(A)))

TrainedOnce == pc = "done" /\ call.op = "train" /\ call.n_iterations = 1

\* the normalizers of the iteration, read from the tables it left
ForwardTotal == SumTo(self.forward[T_ - 1], N_)
DeltaTotal(i, stop) == SumTo([t \in DOMAIN self.delta |-> self.delta[t][i]], stop)
NormalizersNonzero ==
    /\ \A t \in 0..(T_ - 2) : GammaDenom(self, t) # Zero
    /\ ForwardTotal # Zero
    /\ \A i \in 0..(N_ - 1) : DeltaTotal(i, T_ - 1) # Zero /\ DeltaTotal(i, T_) # Zero

AllFinite3(g) == \A t \in DOMAIN g : \A i \in DOMAIN g[t] : \A j \in DOMAIN g[t][i] : IsFinite(g[t][i][j])
AllFinite2(m) == \A i \in DOMAIN m : \A j \in DOMAIN m[i] : IsFinite(m[i][j])

\* the indices the last call computed from its observations
CallIndices == IF call.op = "train" THEN self.observation_indices ELSE call.observation_indices

(***************************************************************************)
(* C1.  After train(observations, n) with n >= 1 on a sequence of length   *)
(* >= 2 with no zero normalizer, every column of A (real-state columns and *)
(* START column, over the real-state rows) sums to 1 and every column of B *)
(* sums to 1.  The code stores the re-estimated block transposed: its rows *)
(* sum to 1, its columns do not.                                           *)
(***************************************************************************)
C1_TrainKeepsColumnStochastic ==
    (TrainedOnce /\ call.raised = "none" /\ T_ >= 2 /\ WellShaped /\ NormalizersNonzero)
        => /\ TransitionStochasticRealRows(self.p_transition)
           /\ EmissionStochastic(self.p_emission)

(***************************************************************************)
(* C2.  The path viterbi returns has the maximum score                     *)
(* pi[s0]*B[y0,s0] * prod_t A[s_t,s_(t-1)]*B[y_t,s_t] among all N^T paths. *)
(***************************************************************************)
RECURSIVE PathScore(_, _, _, _)
PathScore(h, idx, path, t) ==
    IF t = 0
    THEN Mul(h.p_transition[path[0]][h.n_hidden_states], h.p_emission[idx[0]][path[0]])
    ELSE Mul(PathScore(h, idx, path, t - 1),
             Mul(h.p_transition[path[t]][path[t - 1]], h.p_emission[idx[t]][path[t]]))

ViterbiReturned == pc = "done" /\ call.op = "viterbi" /\ call.raised = "none"

C2_ViterbiPathIsOptimal ==
    (ViterbiReturned /\ WellShaped) =>
        LET idx == call.observation_indices
            T == Len0(idx)
            best == PathScore(self, idx, call.states, T - 1)
        IN  \A path \in [0..(T - 1) -> 0..(N_ - 1)] :
                ~Less(best, PathScore(self, idx, path, T - 1))

\* a decoded path of full length that changes state, with a positive score
C2_Witness ==
    /\ ViterbiReturned /\ WellShaped /\ N_ = 2
    /\ Len0(call.observation_indices) = MaxT
    /\ call.states[0] # call.states[1]
    /\ call.states[MaxT - 2] # call.states[MaxT - 1]
    /\ Less(Zero, PathScore(self, call.observation_indices, call.states, MaxT - 1))

(***************************************************************************)
(* C3.  train(observations, 0) leaves A and B entry for entry as they      *)
(* were, whatever the sequence.                                            *)
(***************************************************************************)
C3_TrainZeroIsNoOp ==
    [][(call'.op = "train" /\ call'.n_iterations = 0 /\ pc = "ready")
          => /\ self'.p_transition = self.p_transition
             /\ self'.p_emission = self.p_emission]_vars

\* a train with no iteration that got past the indexer and reset the tables
C3_Witness ==
    /\ pc = "done" /\ call.op = "train" /\ call.n_iterations = 0
    /\ call.raised = "none" /\ T_ = MaxT /\ N_ = 2
    /\ self.forward = Zeros2(T_, N_)

(***************************************************************************)
(* C4.  A call of train or viterbi is rejected by the indexing step        *)
(* exactly when the index range of its sequence exceeds K-1.  The code     *)
(* counts distinct labels instead: a sequence with gaps passes the check.  *)
(***************************************************************************)
C4_RangeRejectedByIndexer ==
    (pc = "done") => (call.raised = "AssertionError" <=> MaxOf(CallIndices) > K_ - 1)

(***************************************************************************)
(* C5.  train never stores an undefined (NaN or infinite) value into       *)
(* gamma, delta, A or B: a zero normalizer makes it fail first.  The code  *)
(* divides by the zero.                                                    *)
(***************************************************************************)
C5_NoUndefinedValueStored ==
    (pc = "done" /\ call.op = "train" /\ call.raised # "AssertionError") =>
        /\ AllFinite3(self.gamma) /\ AllFinite2(self.delta)
        /\ AllFinite2(self.p_transition) /\ AllFinite2(self.p_emission)

C7_ShapeMismatchRejected ==
    (call.op = "init" /\ ~WellShaped) => pc = "failed"

(***************************************************************************)
(* C8.  For every sequence the indexer accepts, viterbi returns T state    *)
(* indices, each in 0..N-1, and leaves A, B, N and K as they were.         *)
(***************************************************************************)
C8_ViterbiReturnsPath ==
    (pc = "done" /\ call.op = "viterbi" /\ WellShaped /\ call.raised # "AssertionError") =>
        /\ call.raised = "none"
        /\ DOMAIN call.states = DOMAIN call.observation_indices
        /\ \A t \in DOMAIN call.states : call.states[t] \in 0..(N_ - 1)

(***************************************************************************)
(* C9.  As claimed: alpha[t,i] = B[y_t,i] * sum_j A[j,i] * alpha[t-1,j].   *)
(* Amended: alpha[t,i] = B[y_t,i] * sum_j A[i,j] * alpha[t-1,j] (row index *)
(* i = the state being computed, column index j = the state summed over).  *)
(* Both with alpha[0,i] = pi_i * B[y_0,i], pi the START column.  A and B   *)
(* are the parameters before the call, alpha the table after it.           *)
(***************************************************************************)
ForwardStart(A, B, idx, fw) ==
    \A i \in DOMAIN fw[0] : fw[0][i] = Mul(A[i][Rows(A) - 1], B[idx[0]][i])

ForwardTrainStep ==
    /\ pc = "ready" /\ WellShaped
    /\ call'.op = "train" /\ call'.n_iterations = 1 /\ call'.raised = "none"

C10_GammaNormalizerConstant ==
    (TrainedOnce /\ call.raised = "none") =>
        \A t \in 0..(T_ - 1) : GammaDenom(self, t) = ForwardTotal

\* a positive likelihood on a full-length sequence, backward rows not all 1
C10_Witness ==
    /\ TrainedOnce /\ call.raised = "none" /\ WellShaped /\ N_ = 2 /\ T_ = MaxT
    /\ Less(Zero, ForwardTotal)
    /\ self.backward[0][0] # self.backward[0][1]
    /\ self.backward[0][0] # One

====
